---- MODULE Spec2Model ----
(***************************************************************************)
(* The tamper-evident audit trail of AuditLens: the AuditEntry collection  *)
(* (backend-api/src/models/AuditEntry.js), the AuditService singleton      *)
(* (backend-api/src/services/auditService.js) and the maintenance script   *)
(* that clears the database.                                               *)
(*                                                                         *)
(* JavaScript values are records [k |-> kind, v |-> text].  A JSON text is *)
(* a sequence of tokens [key, t, v], one per serialised member, in the     *)
(* order JSON.stringify emits them.  SHA-256 and HMAC-SHA-256 are taken to *)
(* be collision free: a digest is represented by the token sequence it was *)
(* computed from, so two digests are equal exactly when the serialised     *)
(* texts are equal.                                                        *)
(***************************************************************************)
EXTENDS Integers, Sequences, FiniteSets, TLC

\* ---------------------------------------------------------------- bounds
MaxEntries == 3
MaxTime == 2

\* The concurrent callers of the service (request handlers).
Procs == {1, 2}

\* ------------------------------------------------------ JavaScript values
Str(s) == [k |-> "str", v |-> s]
Num(s) == [k |-> "num", v |-> s]
Oid(s) == [k |-> "oid", v |-> s]
Bool(s) == [k |-> "bool", v |-> s]
DateOf(t) == [k |-> "date", v |-> ToString(t)]
Undef == [k |-> "undef", v |-> ""]
Null == [k |-> "null", v |-> "null"]
NaN == [k |-> "nan", v |-> "NaN"]

IsNullish(x) == x.k \in {"undef", "null"}

\* The 24-digit hexadecimal strings among the texts of the model.
HexIds == {"aaaaaaaaaaaaaaaaaaaaaaaa", "bbbbbbbbbbbbbbbbbbbbbbbb"}

ActionEnum == {"CREATE", "READ", "UPDATE", "DELETE", "LOGIN", "LOGOUT", "EXPORT", "APPROVE", "REJECT", "ACCESS_DENIED"}
SensitivityEnum == {"PUBLIC", "INTERNAL", "CONFIDENTIAL", "RESTRICTED"}

\* '0'.repeat(64): the previousHash of the first entry.
GENESIS == <<[key |-> "", t |-> "hex", v |-> "0000000000000000"]>>

\* ------------------------------------------------------- JSON.stringify
\* The JSON type of a value: an ObjectId and a Date serialise through
\* toJSON() as strings; NaN serialises as the literal null.
JsonType(x) ==
  CASE x.k \in {"str", "oid", "date"} -> "str"
    [] x.k = "num" -> "num"
    [] OTHER -> "lit"

JsonText(x) == IF x.k \in {"nan", "null"} THEN "null" ELSE x.v

\* One member of an object literal; a member whose value is undefined is
\* left out of the text.
Member(key, x) ==
  IF x.k = "undef" THEN << >> ELSE <<[key |-> key, t |-> JsonType(x), v |-> JsonText(x)]>>

RECURSIVE Members(_)
Members(kvs) ==
  IF kvs = << >> THEN << >>
  ELSE Member(Head(kvs).key, Head(kvs).val) \o Members(Tail(kvs))

\* A nested object (details): its members in insertion order between braces.
ObjectMember(key, kvs) ==
  <<[key |-> key, t |-> "obj", v |-> "{"]>> \o Members(kvs) \o <<[key |-> key, t |-> "obj", v |-> "}"]>>

\* A digest used as a string member (previousHash).
DigestMember(key, h) ==
  <<[key |-> key, t |-> "str", v |-> "<"]>> \o h \o <<[key |-> key, t |-> "str", v |-> ">"]>>

RECURSIVE ArrayMembers(_, _)
ArrayMembers(key, xs) ==
  IF xs = << >> THEN << >>
  ELSE <<[key |-> key, t |-> "str", v |-> Head(xs)]>> \o ArrayMembers(key, Tail(xs))

ArrayMember(key, xs) ==
  <<[key |-> key, t |-> "arr", v |-> "["]>> \o ArrayMembers(key, xs) \o <<[key |-> key, t |-> "arr", v |-> "]"]>>

\* ------------------------------------------------------------- digests
\* calculateHash with previousHash left out of the hashed object.
calculateHashWithoutPreviousHash(data) ==
  Member("timestamp", data.timestamp)
  \o Member("action", data.action)
  \o Member("userId", data.userId)
  \o Member("username", data.username)
  \o Member("resourceType", data.resourceType)
  \o Member("resourceId", data.resourceId)
  \o ObjectMember("details", data.details)
  \o Member("success", data.success)

calculateHash(data) ==
  Member("timestamp", data.timestamp)
  \o Member("action", data.action)
  \o Member("userId", data.userId)
  \o Member("username", data.username)
  \o Member("resourceType", data.resourceType)
  \o Member("resourceId", data.resourceId)
  \o ObjectMember("details", data.details)
  \o DigestMember("previousHash", data.previousHash)
  \o Member("success", data.success)

\* process.env: the environment the process was started in.
VARIABLE env

\* process.env.AUDIT_SECRET || 'change_this_secret_in_production': the
\* fallback is taken when the variable is not set or is set to ''.
AUDIT_SECRET ==
  IF env.AUDIT_SECRET.k = "undef" \/ env.AUDIT_SECRET.v = ""
  THEN "change_this_secret_in_production" ELSE env.AUDIT_SECRET.v

\* crypto.createHmac('sha256', secret).update(dataString).digest('hex')
createHmac(secret, dataString) == <<[key |-> "", t |-> "hmac", v |-> secret]>> \o dataString

\* JSON.stringify(data) of the entryData object.
Stringify(data) ==
  Member("timestamp", data.timestamp)
  \o Member("action", data.action)
  \o Member("userId", data.userId)
  \o Member("username", data.username)
  \o Member("resourceType", data.resourceType)
  \o Member("resourceId", data.resourceId)
  \o ObjectMember("details", data.details)
  \o Member("ipAddress", data.ipAddress)
  \o Member("userAgent", data.userAgent)
  \o Member("sensitivity", data.sensitivity)
  \o ArrayMember("complianceTags", data.complianceTags)
  \o DigestMember("previousHash", data.previousHash)
  \o Member("success", data.success)
  \o Member("errorMessage", data.errorMessage)

generateSignature(data) == createHmac(AUDIT_SECRET, Stringify(data))

\* --------------------------------------------------------- schema casts
\* SchemaString.cast: a number, an ObjectId or a boolean is stored as its
\* string; null and undefined stay.
CastString(x) == IF x.k \in {"num", "oid", "bool"} THEN Str(x.v) ELSE x

\* SchemaObjectId.cast: a 24-digit hexadecimal string becomes an ObjectId.
CanCastObjectId(x) == x.k \in {"oid", "undef", "null"} \/ (x.k = "str" /\ x.v \in HexIds)
CastObjectId(x) == IF x.k = "str" THEN Oid(x.v) ELSE x

\* SchemaBoolean.cast: 1, '1', 'true' become true and 0, '0', 'false' false.
CanCastBoolean(x) ==
  x.k \in {"bool", "undef", "null"} \/ (x.k \in {"num", "str"} /\ x.v \in {"0", "1", "true", "false"})
CastBoolean(x) ==
  IF x.k \in {"num", "str"} THEN Bool(IF x.v \in {"1", "true"} THEN "true" ELSE "false") ELSE x

\* `required: true`; a required string may not be empty either.
Required(x) == ~IsNullish(x) /\ ~(x.k = "str" /\ x.v = "")

\* The document Mongoose builds from the object handed to create(): every
\* path cast to its schema type, defaults filled in.
CastDoc(d) ==
  [d EXCEPT !.action = CastString(@),
            !.userId = CastObjectId(@),
            !.username = CastString(@),
            !.resourceType = CastString(@),
            !.resourceId = CastString(@),
            !.ipAddress = CastString(@),
            !.userAgent = CastString(@),
            !.sensitivity = IF @.k = "undef" THEN Str("INTERNAL") ELSE CastString(@),
            !.success = IF @.k = "undef" THEN Bool("true") ELSE CastBoolean(@),
            !.errorMessage = CastString(@)]

\* Schema validation of the cast document.
Validates(d) ==
  /\ CanCastObjectId(d.userId)
  /\ CanCastBoolean(d.success)
  /\ LET c == CastDoc(d) IN
       /\ Required(c.action) /\ c.action.v \in ActionEnum
       /\ Required(c.userId)
       /\ Required(c.username)
       /\ Required(c.resourceType)
       /\ Required(c.resourceId)
       /\ (IsNullish(c.sensitivity) \/ c.sensitivity.v \in SensitivityEnum)

\* ---------------------------------------------------------------- inputs
U1 == "aaaaaaaaaaaaaaaaaaaaaaaa"

\* The params objects handed to createAuditEntry.
Params ==
  { [action |-> Str("LOGIN"), userId |-> Oid(U1), username |-> Str("alice"),
     resourceType |-> Str("Session"), resourceId |-> Str("s1"), details |-> << >>,
     ipAddress |-> Undef, userAgent |-> Undef, sensitivity |-> Undef,
     complianceTags |-> << >>, success |-> Undef, errorMessage |-> Undef],
    [action |-> Str("APPROVE"), userId |-> Str(U1), username |-> Str("alice"),
     resourceType |-> Str("Invoice"), resourceId |-> Str("INV-1"),
     details |-> <<[key |-> "description", val |-> Str("ok")], [key |-> "discount", val |-> Null]>>,
     ipAddress |-> Str("10.0.0.1"), userAgent |-> Undef, sensitivity |-> Str("CONFIDENTIAL"),
     complianceTags |-> <<"SOX">>, success |-> Bool("true"), errorMessage |-> Undef],
    [action |-> Str("READ"), userId |-> Oid(U1), username |-> Str("alice"),
     resourceType |-> Str("Invoice"), resourceId |-> Num("42"), details |-> << >>,
     ipAddress |-> Undef, userAgent |-> Undef, sensitivity |-> Undef,
     complianceTags |-> << >>, success |-> Undef, errorMessage |-> Undef],
    [action |-> Str("PURGE"), userId |-> Oid(U1), username |-> Str("alice"),
     resourceType |-> Str("Invoice"), resourceId |-> Str("INV-1"), details |-> << >>,
     ipAddress |-> Undef, userAgent |-> Undef, sensitivity |-> Undef,
     complianceTags |-> << >>, success |-> Bool("false"), errorMessage |-> Str("denied")] }

\* ----------------------------------------------------------------- state
VARIABLES
  entries,       \* the audit_trail collection, in natural (insertion) order
  nextId,        \* the number of documents inserted so far; the next _id
  now,           \* the value new Date() returned last, in milliseconds
  previousHash,  \* AuditService.previousHash of the exported singleton
  pc,            \* per caller: the await at which its createAuditEntry stands
  lastEntry,     \* per caller: the result of the tail read
  built,         \* per caller: the object handed to AuditEntry.create
  result,        \* how the createAuditEntry call that ended last ended
  vres,          \* the value the last read operation returned
  storeResult,   \* how the last direct operation on the model ended
  tamper,        \* what was written to the collection behind the service
  search         \* the searchAuditLogs call in progress, after its count

vars == <<env, entries, nextId, now, previousHash, pc, lastEntry, built, result, vres, storeResult, tamper, search>>

NoEntry == [found |-> FALSE, hash |-> << >>]
NoDoc == [hash |-> << >>]
NoResult == [op |-> "none"]
NoCall == [status |-> "none", error |-> "", id |-> 0]
NoStoreOp == [op |-> "none", outcome |-> ""]
NoTamper == [field |-> "none", id |-> 0, before |-> << >>]
NoSearch == [pc |-> "idle"]

\* The environment: NODE_ENV and AUDIT_SECRET, each set or not.
Environment(nodeEnv, auditSecret) == [NODE_ENV |-> nodeEnv, AUDIT_SECRET |-> auditSecret]

\* The state of the module once loaded: the singleton constructed, the
\* collection empty.
Loaded ==
  /\ entries = << >>
  /\ nextId = 1
  /\ now = 0
  /\ previousHash = GENESIS
  /\ pc = [p \in Procs |-> "idle"]
  /\ lastEntry = [p \in Procs |-> NoEntry]
  /\ built = [p \in Procs |-> NoDoc]
  /\ result = NoCall
  /\ vres = NoResult
  /\ storeResult = NoStoreOp
  /\ tamper = NoTamper
  /\ search = NoSearch

\* A process started with neither variable set.
Init == env = Environment(Undef, Undef) /\ Loaded

Range(s) == {s[i] : i \in 1..Len(s)}
Hashes(es) == {es[i].hash : i \in 1..Len(es)}
InFlight == Cardinality({p \in Procs : pc[p] # "idle"})

\* ------------------------------------------------------ createAuditEntry
\* findOne().sort({ timestamp: -1 }): a document with the greatest
\* timestamp; which one, among several with that timestamp, is not fixed.
Tails(es) == {i \in 1..Len(es) : \A j \in 1..Len(es) : es[j].timestamp <= es[i].timestamp}

\* The call up to the completion of the tail read.
ReadTail(p) ==
  /\ pc[p] = "idle"
  /\ nextId + InFlight <= MaxEntries
  /\ \/ /\ entries = << >>
        /\ lastEntry' = [lastEntry EXCEPT ![p] = NoEntry]
     \/ \E i \in Tails(entries) :
          lastEntry' = [lastEntry EXCEPT ![p] = [found |-> TRUE, hash |-> entries[i].hash]]
  /\ pc' = [pc EXCEPT ![p] = "read"]
  /\ result' = NoCall
  /\ vres' = NoResult
  /\ UNCHANGED <<env, search, entries, nextId, now, previousHash, built, storeResult, tamper>>

\* The fields calculateHash reads, for entryData and for a loaded document.
HashInput(d, uid) ==
  [timestamp |-> DateOf(d.timestamp), action |-> d.action, userId |-> uid,
   username |-> d.username, resourceType |-> d.resourceType, resourceId |-> d.resourceId,
   details |-> d.details, previousHash |-> d.previousHash, success |-> d.success]

SignInput(d) ==
  [timestamp |-> DateOf(d.timestamp), action |-> d.action, userId |-> d.userId,
   username |-> d.username, resourceType |-> d.resourceType, resourceId |-> d.resourceId,
   details |-> d.details, ipAddress |-> d.ipAddress, userAgent |-> d.userAgent,
   sensitivity |-> d.sensitivity, complianceTags |-> d.complianceTags,
   previousHash |-> d.previousHash, success |-> d.success, errorMessage |-> d.errorMessage]

\* entryData of createAuditEntry, built from params, the clock and the
\* service's previousHash.
EntryData(params, t, prev) ==
  [timestamp |-> t, action |-> params.action, userId |-> params.userId,
   username |-> params.username, resourceType |-> params.resourceType,
   resourceId |-> params.resourceId, details |-> params.details,
   ipAddress |-> params.ipAddress, userAgent |-> params.userAgent,
   sensitivity |-> IF params.sensitivity.k = "undef" THEN Str("INTERNAL") ELSE params.sensitivity,
   complianceTags |-> params.complianceTags, previousHash |-> prev,
   success |-> IF params.success.k # "undef" THEN params.success ELSE Bool("true"),
   errorMessage |-> params.errorMessage]

\* { ...entryData, hash, signature }
WithDigests(d) ==
  [timestamp |-> d.timestamp, action |-> d.action, userId |-> d.userId,
   username |-> d.username, resourceType |-> d.resourceType, resourceId |-> d.resourceId,
   details |-> d.details, ipAddress |-> d.ipAddress, userAgent |-> d.userAgent,
   sensitivity |-> d.sensitivity, complianceTags |-> d.complianceTags,
   previousHash |-> d.previousHash, success |-> d.success, errorMessage |-> d.errorMessage,
   hash |-> calculateHash(HashInput(d, d.userId)),
   signature |-> generateSignature(SignInput(d))]

\* The step below, made to remember the hash of the entry before it is
\* stored.
BuildEntryRememberingHash(p, params, t) ==
  /\ pc[p] = "read"
  /\ LET prev == IF lastEntry[p].found THEN lastEntry[p].hash ELSE previousHash IN
       /\ now' = t
       /\ previousHash' = WithDigests(EntryData(params, t, prev)).hash
       /\ built' = [built EXCEPT ![p] = WithDigests(EntryData(params, t, prev))]
  /\ pc' = [pc EXCEPT ![p] = "built"]
  /\ lastEntry' = [lastEntry EXCEPT ![p] = NoEntry]
  /\ vres' = NoResult
  /\ UNCHANGED <<env, search, entries, nextId, result, storeResult, tamper>>

\* From the completion of the tail read to the call of AuditEntry.create:
\* one synchronous stretch of the handler.  new Date() returns the clock,
\* which has advanced since it was last read, or has not.
BuildEntry(p, params, t) ==
  /\ pc[p] = "read"
  /\ LET prev == IF lastEntry[p].found THEN lastEntry[p].hash ELSE previousHash IN
       /\ now' = t
       /\ previousHash' = prev
       /\ built' = [built EXCEPT ![p] = WithDigests(EntryData(params, t, prev))]
  /\ pc' = [pc EXCEPT ![p] = "built"]
  /\ lastEntry' = [lastEntry EXCEPT ![p] = NoEntry]
  /\ vres' = NoResult
  /\ UNCHANGED <<env, search, entries, nextId, result, storeResult, tamper>>

Build(p) == \E params \in Params, t \in now..MaxTime : BuildEntry(p, params, t)

\* AuditEntry.create: validation, then the insert, which the unique index
\* on hash rejects when the hash is already in the collection.
CreateErrorWithoutUniqueIndex(d, es) ==
  IF ~Validates(d) THEN "ValidationError" ELSE "none"

\* CreateError without the validation of the schema.
CreateErrorWithoutValidation(d, es) ==
  IF d.hash \in Hashes(es) THEN "DuplicateKeyError" ELSE "none"

CreateError(d, es) ==
  IF ~Validates(d) THEN "ValidationError"
  ELSE IF d.hash \in Hashes(es) THEN "DuplicateKeyError"
  ELSE "none"

Stored(d, id) ==
  LET c == CastDoc(d) IN
  [id |-> id, timestamp |-> c.timestamp, action |-> c.action, userId |-> c.userId,
   username |-> c.username, resourceType |-> c.resourceType, resourceId |-> c.resourceId,
   details |-> c.details, ipAddress |-> c.ipAddress, userAgent |-> c.userAgent,
   sensitivity |-> c.sensitivity, complianceTags |-> c.complianceTags,
   previousHash |-> c.previousHash, success |-> c.success, errorMessage |-> c.errorMessage,
   hash |-> c.hash, signature |-> c.signature]

\* The insert.  When create rejects, the catch block logs and rethrows; it
\* touches no state of the service, so the rejected call ends here.
Create(p) ==
  /\ pc[p] = "built"
  /\ LET err == CreateError(built[p], entries) IN
       IF err = "none"
       THEN /\ entries' = Append(entries, Stored(built[p], nextId))
            /\ nextId' = nextId + 1
            /\ pc' = [pc EXCEPT ![p] = "created"]
            /\ built' = [built EXCEPT ![p] = Stored(built[p], nextId)]
            /\ UNCHANGED result
       ELSE /\ pc' = [pc EXCEPT ![p] = "idle"]
            /\ result' = [status |-> "thrown", error |-> err, id |-> 0]
            /\ built' = [built EXCEPT ![p] = NoDoc]
            /\ UNCHANGED <<entries, nextId>>
  /\ vres' = NoResult
  /\ UNCHANGED <<env, search, now, previousHash, lastEntry, storeResult, tamper>>

\* After the create resolved: the service remembers the hash and returns
\* the document.
Return(p) ==
  /\ pc[p] = "created"
  /\ previousHash' = built[p].hash
  /\ result' = [status |-> "returned", error |-> "", id |-> built[p].id]
  /\ built' = [built EXCEPT ![p] = NoDoc]
  /\ pc' = [pc EXCEPT ![p] = "idle"]
  /\ vres' = NoResult
  /\ UNCHANGED <<env, search, entries, nextId, now, lastEntry, storeResult, tamper>>

createAuditEntry(p) == ReadTail(p) \/ Build(p) \/ Create(p) \/ Return(p)

\* AuditEntry.create rejecting because the store cannot be reached: the
\* catch block logs and rethrows.
StorageFailure(p) ==
  /\ pc[p] = "built"
  /\ pc' = [pc EXCEPT ![p] = "idle"]
  /\ result' = [status |-> "thrown", error |-> "StorageError", id |-> 0]
  /\ built' = [built EXCEPT ![p] = NoDoc]
  /\ vres' = NoResult
  /\ UNCHANGED <<env, search, entries, nextId, now, previousHash, lastEntry, storeResult, tamper>>

\* --------------------------------------------------- verifyChainIntegrity
HashMismatch == "Hash mismatch - entry may have been tampered with"
ChainBroken == "Chain broken - previous hash mismatch"

\* String(value) of JavaScript.
JsString(x) == IF x.k = "undef" THEN Str("undefined") ELSE Str(x.v)

\* The hash verifyChainIntegrity recomputes for a loaded document.
RecomputedHash(e) == calculateHash(HashInput(e, JsString(e.userId)))

\* The query on timestamp: a bound that is absent (None) does not restrict.
None == -1
InRange(e, startDate, endDate) ==
  /\ (startDate # None => e.timestamp >= startDate)
  /\ (endDate # None => e.timestamp <= endDate)

Indices(es, startDate, endDate) == {i \in 1..Len(es) : InRange(es[i], startDate, endDate)}

\* find(query).sort({ timestamp: 1 }): the matching documents by ascending
\* timestamp; the order among documents of one timestamp is not fixed.
Sorted(es, startDate, endDate) ==
  LET ix == Indices(es, startDate, endDate)
      n == Cardinality(ix)
  IN { [k \in 1..n |-> es[f[k]]] :
         f \in { g \in [1..n -> ix] :
                   /\ \A a, b \in 1..n : a # b => g[a] # g[b]
                   /\ \A a, b \in 1..n : a < b => es[g[a]].timestamp <= es[g[b]].timestamp } }

\* ErrorsAt without the comparison to the previous document.
ErrorsAtWithoutLinkCheck(sorted, i) ==
  IF RecomputedHash(sorted[i]) # sorted[i].hash
  THEN <<[entryId |-> sorted[i].id, error |-> HashMismatch]>> ELSE << >>

\* The errors pushed for the i-th document of the sorted list.
ErrorsAt(sorted, i) ==
  (IF RecomputedHash(sorted[i]) # sorted[i].hash
   THEN <<[entryId |-> sorted[i].id, error |-> HashMismatch]>> ELSE << >>)
  \o (IF i > 1 /\ sorted[i].previousHash # sorted[i - 1].hash
      THEN <<[entryId |-> sorted[i].id, error |-> ChainBroken]>> ELSE << >>)

\* ErrorsUpTo leaving the loop at the first document with a finding.
RECURSIVE ErrorsUpToFirstFinding(_, _)
ErrorsUpToFirstFinding(sorted, n) ==
  IF n = 0 THEN << >>
  ELSE LET before == ErrorsUpToFirstFinding(sorted, n - 1) IN
       IF Len(before) > 0 THEN before ELSE ErrorsAt(sorted, n)

\* The errors array after the first n rounds of the loop.
RECURSIVE ErrorsUpTo(_, _)
ErrorsUpTo(sorted, n) ==
  IF n = 0 THEN << >> ELSE ErrorsUpTo(sorted, n - 1) \o ErrorsAt(sorted, n)

VerifyResult(sorted) ==
  LET errors == ErrorsUpTo(sorted, Len(sorted)) IN
  [op |-> "verifyChainIntegrity", valid |-> (Len(errors) = 0),
   totalEntries |-> Len(sorted), errors |-> errors]

\* A ledger that verifyChainIntegrity() finds valid in whatever order the
\* sort returns documents of equal timestamp.
ValidLedger(es) == \A sorted \in Sorted(es, None, None) : VerifyResult(sorted).valid

\* verifyChainIntegrity() over the whole ledger.
\* verifyChainIntegrity, made to take the hash of the last entry it read
\* for the tail the service remembers.
verifyChainIntegrityRememberingTail ==
  /\ \E sorted \in Sorted(entries, None, None) :
       /\ vres' = VerifyResult(sorted)
       /\ previousHash' = IF sorted = << >> THEN previousHash ELSE sorted[Len(sorted)].hash
  /\ UNCHANGED <<env, search, entries, nextId, now, pc, lastEntry, built, result, storeResult, tamper>>

verifyChainIntegrity ==
  /\ \E sorted \in Sorted(entries, None, None) : vres' = VerifyResult(sorted)
  /\ UNCHANGED <<env, search, entries, nextId, now, previousHash, pc, lastEntry, built, result, storeResult, tamper>>

\* The Date a caller passes for a bound of the range, or nothing.  The
\* instants inside the span of the clock: a bound at either end of the span
\* selects what no bound or the other bound selects.
Dates == {None} \cup {t \in 0..MaxTime : 0 < t /\ t < MaxTime}

\* verifyChainIntegrity(startDate, endDate); the value returned is kept
\* with the arguments of the call.
verifyChainIntegrityBetween(startDate, endDate) ==
  /\ \E sorted \in Sorted(entries, startDate, endDate) :
       LET r == VerifyResult(sorted) IN
         vres' = [op |-> r.op, startDate |-> startDate, endDate |-> endDate,
                  valid |-> r.valid, totalEntries |-> r.totalEntries, errors |-> r.errors]
  /\ UNCHANGED <<env, search, entries, nextId, now, previousHash, pc, lastEntry, built, result, storeResult, tamper>>

\* ------------------------------------------------------- read operations
\* find(query).sort({ timestamp: -1 }): the documents of the indices ix by
\* descending timestamp; the order among documents of one timestamp is not
\* fixed.
Descending(es, ix) ==
  LET n == Cardinality(ix)
  IN { [k \in 1..n |-> es[f[k]]] :
         f \in { g \in [1..n -> ix] :
                   /\ \A a, b \in 1..n : a # b => g[a] # g[b]
                   /\ \A a, b \in 1..n : a < b => es[g[a]].timestamp >= es[g[b]].timestamp } }

\* Slice taking limit documents from the start of the cursor.
SliceIgnoringSkip(sorted, skip, limit) ==
  SubSeq(sorted, 1, IF limit < Len(sorted) THEN limit ELSE Len(sorted))

\* Slice taking every document after the skipped ones.
SliceIgnoringLimit(sorted, skip, limit) == SubSeq(sorted, skip + 1, Len(sorted))

\* skip(skip).limit(limit) of a cursor.
Slice(sorted, skip, limit) ==
  SubSeq(sorted, skip + 1, IF skip + limit < Len(sorted) THEN skip + limit ELSE Len(sorted))

\* The _id of each document of a list.
Ids(docs) == [k \in 1..Len(docs) |-> docs[k].id]

\* getUserAuditTrail(userId, startDate, endDate, limit)
getUserAuditTrail(userId, startDate, endDate, limit) ==
  /\ \E sorted \in Descending(entries, {i \in Indices(entries, startDate, endDate) : entries[i].userId = Oid(userId)}) :
       vres' = [op |-> "getUserAuditTrail", ids |-> Ids(Slice(sorted, 0, limit))]
  /\ UNCHANGED <<env, search, entries, nextId, now, previousHash, pc, lastEntry, built, result, storeResult, tamper>>

\* getResourceAuditTrail(resourceType, resourceId); the value returned is
\* kept with the arguments of the call.
getResourceAuditTrail(resourceType, resourceId) ==
  /\ \E sorted \in Descending(entries, {i \in 1..Len(entries) :
                                          /\ entries[i].resourceType = Str(resourceType)
                                          /\ entries[i].resourceId = Str(resourceId)}) :
       vres' = [op |-> "getResourceAuditTrail", resourceType |-> resourceType,
                resourceId |-> resourceId, ids |-> Ids(sorted)]
  /\ UNCHANGED <<env, search, entries, nextId, now, previousHash, pc, lastEntry, built, result, storeResult, tamper>>

\* The value of details.description when it is a string.
Description(e) ==
  LET ks == {k \in 1..Len(e.details) : e.details[k].key = "description" /\ e.details[k].val.k = "str"}
  IN IF ks = {} THEN "" ELSE e.details[CHOOSE k \in ks : TRUE].val.v

\* { $regex: keyword, $options: 'i' }: the texts of the model in which the
\* keyword is found, letter case ignored.
RegexHits(keyword) ==
  CASE keyword = "inv" -> {"INV-1", "INV-2"}
    [] keyword = "ok" -> {"ok"}
    [] OTHER -> {}

\* A searchParams object; a criterion that is '' (or, for a date, None, or,
\* for the tags, empty) is falsy and adds nothing to the query.
SearchCriteria(userId, action, resourceType, sensitivity, complianceTags, startDate, endDate, keyword) ==
  [userId |-> userId, action |-> action, resourceType |-> resourceType, sensitivity |-> sensitivity,
   complianceTags |-> complianceTags, startDate |-> startDate, endDate |-> endDate, keyword |-> keyword]

\* The query searchAuditLogs builds from searchParams, as a predicate.
Matches(e, q) ==
  /\ q.userId # "" => e.userId = Oid(q.userId)
  /\ q.action # "" => e.action = Str(q.action)
  /\ q.resourceType # "" => e.resourceType = Str(q.resourceType)
  /\ q.sensitivity # "" => e.sensitivity = Str(q.sensitivity)
  /\ Len(q.complianceTags) > 0 =>
       \E k \in 1..Len(e.complianceTags) : e.complianceTags[k] \in Range(q.complianceTags)
  /\ InRange(e, q.startDate, q.endDate)
  /\ q.keyword # "" =>
       \/ e.username.v \in RegexHits(q.keyword)
       \/ e.resourceId.v \in RegexHits(q.keyword)
       \/ Description(e) \in RegexHits(q.keyword)

Matching(es, q) == {i \in 1..Len(es) : Matches(es[i], q)}

\* searchAuditLogs up to the completion of countDocuments(query).
searchCount(searchParams, limit, skip) ==
  /\ search.pc = "idle"
  /\ search' = [pc |-> "counted", searchParams |-> searchParams, limit |-> limit, skip |-> skip,
                total |-> Cardinality(Matching(entries, searchParams)), stored |-> Len(entries)]
  /\ vres' = NoResult
  /\ UNCHANGED <<env, entries, nextId, now, previousHash, pc, lastEntry, built, result, storeResult, tamper>>

\* The rest of searchAuditLogs: the find, and the value returned, kept with
\* the arguments of the call and the number of documents inserted since
\* the count.
searchFind ==
  /\ search.pc = "counted"
  /\ \E sorted \in Descending(entries, Matching(entries, search.searchParams)) :
       vres' = [op |-> "searchAuditLogs", searchParams |-> search.searchParams,
                limit |-> search.limit, skip |-> search.skip,
                ids |-> Ids(Slice(sorted, search.skip, search.limit)),
                total |-> search.total,
                page |-> (search.skip \div search.limit) + 1,
                pages |-> (search.total + search.limit - 1) \div search.limit,
                inserted |-> Len(entries) - search.stored]
  /\ search' = NoSearch
  /\ UNCHANGED <<env, entries, nextId, now, previousHash, pc, lastEntry, built, result, storeResult, tamper>>

\* A value that is false in a condition.
Falsy(x) ==
  \/ x.k \in {"undef", "null", "nan"}
  \/ x.k = "str" /\ x.v = ""
  \/ x.k = "bool" /\ x.v = "false"
  \/ x.k = "num" /\ x.v = "0"

FieldOf(e, field) ==
  CASE field = "action" -> e.action
    [] field = "sensitivity" -> e.sensitivity

\* countByField(entries, field): the counts object, as the set of its
\* members.
countByField(docs, field) ==
  LET Text(e) == IF Falsy(FieldOf(e, field)) THEN "unknown" ELSE FieldOf(e, field).v
  IN { [value |-> v, count |-> Cardinality({k \in 1..Len(docs) : Text(docs[k]) = v})] :
         v \in {Text(docs[k]) : k \in 1..Len(docs)} }

\* The filter of violations without the test of the action.
IsViolationFailureOnly(e) == Falsy(e.success)

\* !e.success || e.action === 'ACCESS_DENIED'
IsViolation(e) == Falsy(e.success) \/ e.action = Str("ACCESS_DENIED")

\* One member of violations.
Summary(e) ==
  [timestamp |-> e.timestamp, user |-> e.username, action |-> e.action,
   resourceType |-> e.resourceType, resourceId |-> e.resourceId, error |-> e.errorMessage]

Summaries(docs) == [k \in 1..Len(docs) |-> Summary(docs[k])]

\* (succeeded / total * 100).toFixed(2) + '%', in hundredths of a percent;
\* the division of 0 by 0 gives NaN.
SuccessRate(succeeded, total) ==
  IF total = 0 THEN "NaN%" ELSE ToString((2 * 10000 * succeeded + total) \div (2 * total))

\* The query of the report: both bounds of the period, and the standards
\* when the list is given and not empty.
InReport(e, startDate, endDate, complianceStandards) ==
  /\ e.timestamp >= startDate /\ e.timestamp <= endDate
  /\ Len(complianceStandards) > 0 =>
       \E k \in 1..Len(e.complianceTags) : e.complianceTags[k] \in Range(complianceStandards)

\* generateComplianceReport(startDate, endDate, complianceStandards), no
\* write falling between its two reads; find(query) returns the documents
\* in natural order.  The value returned is kept with the arguments of the
\* call, and without reportId, which is random.
generateComplianceReport(startDate, endDate, complianceStandards) ==
  /\ LET InQuery(e) == InReport(e, startDate, endDate, complianceStandards)
         Violates(e) == IsViolation(e)
         docs == SelectSeq(entries, InQuery)
         succeeded == Cardinality({k \in 1..Len(docs) : ~Falsy(docs[k].success)})
     IN \E sorted \in Sorted(entries, startDate, endDate) :
          vres' = [op |-> "generateComplianceReport", startDate |-> startDate, endDate |-> endDate,
                   standards |-> complianceStandards,
                   totalEntries |-> Len(docs),
                   uniqueUsers |-> Cardinality({JsString(docs[k].userId) : k \in 1..Len(docs)}),
                   actionBreakdown |-> countByField(docs, "action"),
                   sensitivityBreakdown |-> countByField(docs, "sensitivity"),
                   failureCount |-> Len(docs) - succeeded,
                   successRate |-> SuccessRate(succeeded, Len(docs)),
                   violations |-> Summaries(SelectSeq(docs, Violates)),
                   chainIntegrity |-> VerifyResult(sorted)]
  /\ UNCHANGED <<env, search, entries, nextId, now, previousHash, pc, lastEntry, built, result, storeResult, tamper>>

\* ------------------------------------- operations of the AuditEntry model
\* The middleware the schema registers: pre('save'), pre('deleteOne') and
\* pre('deleteMany').
PreHooks == {"save", "deleteOne", "deleteMany"}

\* The middleware a model operation runs: the find-and-modify operations
\* run their own, not that of deleteOne or of save.
Middleware(op) ==
  CASE op = "save" -> "save"
    [] op = "updateOne" -> "updateOne"
    [] op = "deleteOne" -> "deleteOne"
    [] op = "deleteMany" -> "deleteMany"
    [] op = "findOneAndDelete" -> "findOneAndDelete"

\* pre('save') rejects a document that is not new; the delete hooks reject
\* always.
HookRejects(op) == Middleware(op) \in PreHooks

Without(es, i) == [k \in 1..(Len(es) - 1) |-> IF k < i THEN es[k] ELSE es[k + 1]]

\* What the operation does to the collection once its middleware let it
\* pass.  Every path of the schema is immutable: an update of a stored
\* document has its changes dropped and modifies nothing.
Applied(op, es, i) ==
  CASE op \in {"save", "updateOne"} -> es
    [] op \in {"deleteOne", "findOneAndDelete"} -> Without(es, i)
    [] op = "deleteMany" -> << >>

ModelOps == {"save", "updateOne", "deleteOne", "deleteMany", "findOneAndDelete"}

\* One operation of the model on the stored document i: save() of the
\* loaded document, updateOne, deleteOne, deleteMany({}), findOneAndDelete.
ModelOperation(op, i) ==
  /\ i \in 1..Len(entries)
  /\ IF HookRejects(op)
     THEN /\ storeResult' = [op |-> op, outcome |-> "error"]
          /\ UNCHANGED entries
     ELSE /\ storeResult' = [op |-> op, outcome |-> "ok"]
          /\ entries' = Applied(op, entries, i)
  /\ vres' = NoResult
  /\ UNCHANGED <<env, search, nextId, now, previousHash, pc, lastEntry, built, result, tamper>>

\* --------------------------------------------------- maintenance script
\* clearDatabase: deleteMany({}) on every collection of the database,
\* through the driver, in a process of its own.
clearDatabase ==
  /\ entries' = << >>
  /\ vres' = NoResult
  /\ UNCHANGED <<env, search, nextId, now, previousHash, pc, lastEntry, built, result, storeResult, tamper>>

\* ------------------------------------------- writes behind the service
U2 == "bbbbbbbbbbbbbbbbbbbbbbbb"
ForgedHash == <<[key |-> "", t |-> "hex", v |-> "ffffffffffffffff"]>>

\* The fields calculateHash reads.
BoundFields == {"timestamp", "action", "userId", "username", "resourceType", "resourceId", "details", "previousHash", "success"}

\* Values of the field's schema type that a direct write may put in place
\* of the stored one.
TamperValues(field) ==
  CASE field = "timestamp" -> 0..MaxTime
    [] field = "action" -> {Str("LOGIN"), Str("EXPORT")}
    [] field = "userId" -> {Oid(U1), Oid(U2)}
    [] field = "username" -> {Str("alice"), Str("mallory")}
    [] field = "resourceType" -> {Str("Session"), Str("Vendor")}
    [] field = "resourceId" -> {Str("s1"), Str("INV-2")}
    [] field = "details" -> { << >>,
                              <<[key |-> "description", val |-> Str("ok")], [key |-> "discount", val |-> NaN]>>,
                              <<[key |-> "description", val |-> Str("paid")], [key |-> "discount", val |-> Null]>> }
    [] field = "previousHash" -> {GENESIS, ForgedHash}
    [] field = "success" -> {Bool("true"), Bool("false")}
    [] field = "hash" -> {ForgedHash}
    [] field = "ipAddress" -> {Str("10.0.0.9")}
    [] field = "userAgent" -> {Str("curl")}
    [] field = "sensitivity" -> {Str("PUBLIC")}
    [] field = "complianceTags" -> {<<"GDPR">>}
    [] field = "errorMessage" -> {Str("edited")}
    [] field = "signature" -> {ForgedHash}

TamperFields == BoundFields \cup {"hash"}

SetField(e, field, x) ==
  CASE field = "timestamp" -> [e EXCEPT !.timestamp = x]
    [] field = "action" -> [e EXCEPT !.action = x]
    [] field = "userId" -> [e EXCEPT !.userId = x]
    [] field = "username" -> [e EXCEPT !.username = x]
    [] field = "resourceType" -> [e EXCEPT !.resourceType = x]
    [] field = "resourceId" -> [e EXCEPT !.resourceId = x]
    [] field = "details" -> [e EXCEPT !.details = x]
    [] field = "previousHash" -> [e EXCEPT !.previousHash = x]
    [] field = "success" -> [e EXCEPT !.success = x]
    [] field = "hash" -> [e EXCEPT !.hash = x]
    [] field = "ipAddress" -> [e EXCEPT !.ipAddress = x]
    [] field = "userAgent" -> [e EXCEPT !.userAgent = x]
    [] field = "sensitivity" -> [e EXCEPT !.sensitivity = x]
    [] field = "complianceTags" -> [e EXCEPT !.complianceTags = x]
    [] field = "errorMessage" -> [e EXCEPT !.errorMessage = x]
    [] field = "signature" -> [e EXCEPT !.signature = x]

\* One write to one field of one stored document, straight to the
\* collection; the unique index on hash holds for such a write too.  The
\* write is recorded, with the ledger as it was before.
Tamper ==
  /\ tamper = NoTamper
  /\ \E i \in 1..Len(entries), field \in TamperFields :
       \E x \in TamperValues(field) :
         LET e == SetField(entries[i], field, x) IN
           /\ e # entries[i]
           /\ field = "hash" => x \notin Hashes(entries)
           /\ entries' = [entries EXCEPT ![i] = e]
           /\ tamper' = [field |-> field, id |-> entries[i].id, before |-> entries]
  /\ vres' = NoResult
  /\ UNCHANGED <<env, search, nextId, now, previousHash, pc, lastEntry, built, result, storeResult>>

\* The fields of a stored document that calculateHash does not read.
UnboundFields == {"ipAddress", "userAgent", "sensitivity", "complianceTags", "errorMessage", "signature"}

\* One write to one of these fields of one stored document, straight to
\* the collection.  The write is recorded, with the ledger as it was before
\* and the result verification had just given for it.
TamperUnbound ==
  /\ tamper = NoTamper
  /\ \E i \in 1..Len(entries), field \in UnboundFields :
       \E x \in TamperValues(field) :
         LET e == SetField(entries[i], field, x) IN
           /\ e # entries[i]
           /\ entries' = [entries EXCEPT ![i] = e]
           /\ tamper' = [field |-> field, id |-> entries[i].id, before |-> entries, result |-> vres]
  /\ vres' = NoResult
  /\ UNCHANGED <<env, search, nextId, now, previousHash, pc, lastEntry, built, result, storeResult>>

\* One document removed from the collection through the driver, which
\* runs no middleware of the schema.  The removal is recorded, with the
\* ledger as it was before.
Remove ==
  /\ tamper = NoTamper
  /\ \E i \in 1..Len(entries) :
       /\ entries' = Without(entries, i)
       /\ tamper' = [field |-> "removed", id |-> entries[i].id, before |-> entries]
  /\ vres' = NoResult
  /\ UNCHANGED <<env, search, nextId, now, previousHash, pc, lastEntry, built, result, storeResult>>

\* A secret that is not the one of the service.
IntruderSecret == "secret_of_the_intruder"

\* One document inserted into the collection behind the service, after the
\* tail: its previousHash the hash of a tail, its hash the one
\* verifyChainIntegrity recomputes from its fields, its signature made with
\* the intruder's secret.  The unique index on hash holds for it too.
Forge ==
  /\ tamper = NoTamper
  /\ \E params \in Params, t \in 0..MaxTime, i \in Tails(entries) :
       LET d == EntryData(params, t, entries[i].hash)
           c == Stored(WithDigests(d), nextId)
           e == [c EXCEPT !.hash = RecomputedHash(c),
                          !.signature = createHmac(IntruderSecret, Stringify(SignInput(d)))]
       IN /\ Validates(WithDigests(d))
          /\ e.hash \notin Hashes(entries)
          /\ entries' = Append(entries, e)
          /\ tamper' = [field |-> "forged", id |-> nextId, before |-> entries]
  /\ nextId' = nextId + 1
  /\ vres' = NoResult
  /\ UNCHANGED <<env, search, now, previousHash, pc, lastEntry, built, result, storeResult>>

\* ------------------------------------------- middleware/security.js
\* The number of characters of a SHA-256 digest in hexadecimal.
DigestLength == 64

\* A signature as a string: the digest it spells and its length.  A string
\* cut short spells the beginning of the digest.
Tag(digest, length) == [digest |-> digest, length |-> length]

\* generateSignature(data, secret) of security.js.
signData(data, secret) == Tag(createHmac(secret, Stringify(data)), DigestLength)

\* verifySignature(data, signature, secret): timingSafeEqual throws a
\* RangeError when the two buffers differ in length.
verifySignature(data, signature, secret) ==
  IF signature.length # signData(data, secret).length THEN "RangeError"
  ELSE IF signature = signData(data, secret) THEN "true" ELSE "false"

Secrets == {"change_me", IntruderSecret}

\* The entries given to sign and to verify: entryData objects.
Approve == CHOOSE params \in Params : params.action = Str("APPROVE")
SignedObjects ==
  {SignInput(EntryData(params, t, GENESIS)) :
     params \in Params \cup {[Approve EXCEPT !.details = <<[key |-> "description", val |-> Str("ok")], [key |-> "discount", val |-> NaN]>>]},
     t \in 0..MaxTime}

\* One entry signed under a key, the signature kept whole or cut by one
\* character, and verifySignature called with it on an entry and a secret.
\* The call is kept with its arguments.
SignAndVerify ==
  /\ \E signed, checked \in SignedObjects, key, secret \in Secrets, cut \in 0..1 :
       LET whole == signData(signed, key)
           signature == Tag(whole.digest, whole.length - cut)
       IN vres' = [op |-> "verifySignature", signed |-> signed, key |-> key,
                   signature |-> signature, checked |-> checked, secret |-> secret,
                   outcome |-> verifySignature(checked, signature, secret)]
  /\ UNCHANGED <<env, search, entries, nextId, now, previousHash, pc, lastEntry, built, result, storeResult, tamper>>

\* ------------------------------------------------------- specifications
\* Concurrent callers of the service.  The callers are interchangeable: a
\* call that starts takes the lowest caller that is idle.
NextService ==
  \E p \in Procs :
    \/ (\A q \in Procs : q < p => pc[q] # "idle") /\ ReadTail(p)
    \/ Build(p)
    \/ Create(p)
    \/ Return(p)

SpecService == Init /\ [][NextService]_vars

\* One caller at a time, and verification.
NextVerify == createAuditEntry(1) \/ verifyChainIntegrity

SpecVerify == Init /\ [][NextVerify]_vars

\* One caller, and the operations of the model on stored documents.
NextStore == createAuditEntry(1) \/ \E op \in ModelOps, i \in 1..MaxEntries : ModelOperation(op, i)

SpecStore == Init /\ [][NextStore]_vars

\* One caller, and the maintenance script.
NextScripts == createAuditEntry(1) \/ clearDatabase

SpecScripts == Init /\ [][NextScripts]_vars

\* A ledger written by one caller and found valid, then, no call being in
\* progress, one write behind the service, then verification.
NextTamper ==
  \/ tamper = NoTamper /\ createAuditEntry(1)
  \/ ValidLedger(entries) /\ pc[1] = "idle" /\ Tamper
  \/ vres = NoResult /\ verifyChainIntegrity

SpecTamper == Init /\ [][NextTamper]_vars

\* A ledger of logins written by one caller, one write behind the service
\* at any moment between two calls, and verification over a range.
NextFindings ==
  \/ tamper = NoTamper /\ createAuditEntry(1) /\ (pc'[1] = "built" => built'[1].action = Str("LOGIN"))
  \/ pc[1] = "idle" /\ Tamper
  \/ vres = NoResult /\ \E startDate, endDate \in Dates : verifyChainIntegrityBetween(startDate, endDate)

SpecFindings == Init /\ [][NextFindings]_vars

\* A ledger written by one caller and found valid, then, no call being in
\* progress, one document removed behind the service, then verification.
NextDeletion ==
  \/ tamper = NoTamper /\ createAuditEntry(1)
  \/ ValidLedger(entries) /\ pc[1] = "idle" /\ Remove
  \/ vres = NoResult /\ verifyChainIntegrity

SpecDeletion == Init /\ [][NextDeletion]_vars

\* A ledger written by one caller and found valid, then, no call being in
\* progress, one document inserted behind the service, then verification.
NextForgery ==
  \/ tamper = NoTamper /\ createAuditEntry(1)
  \/ ValidLedger(entries) /\ pc[1] = "idle" /\ Forge
  \/ vres = NoResult /\ verifyChainIntegrity

SpecForgery == Init /\ [][NextForgery]_vars

\* Signing and verifying, on their own.
NextSignature == vres = NoResult /\ SignAndVerify

SpecSignature == Init /\ [][NextSignature]_vars

\* One caller, whose append the store may also reject.
NextFailures == createAuditEntry(1) \/ StorageFailure(1)

SpecFailures == Init /\ [][NextFailures]_vars

\* A process started in any environment, and one caller.
Environments ==
  {Environment(nodeEnv, auditSecret) :
     nodeEnv \in {Undef, Str("production")}, auditSecret \in {Undef, Str("s3cret")}}

InitConfig == env \in Environments /\ Loaded

NextConfig == createAuditEntry(1)

SpecConfig == InitConfig /\ [][NextConfig]_vars

\* Concurrent callers that record the same approval, the keys of details
\* put in one order or the other.
ReorderedParams ==
  {[Approve EXCEPT !.details = kvs] :
     kvs \in {<<[key |-> "description", val |-> Str("ok")], [key |-> "discount", val |-> Null]>>,
              <<[key |-> "discount", val |-> Null], [key |-> "description", val |-> Str("ok")]>>}}

NextEncoding ==
  \E p \in Procs :
    \/ ReadTail(p)
    \/ \E params \in ReorderedParams, t \in now..MaxTime : BuildEntry(p, params, t)
    \/ Create(p)
    \/ Return(p)

SpecEncoding == Init /\ [][NextEncoding]_vars

\* One caller, and the trail of a resource read at any moment.
Resources == {<<"Session", "s1">>, <<"Invoice", "INV-1">>}

NextTrail ==
  \/ createAuditEntry(1)
  \/ \E r \in Resources : getResourceAuditTrail(r[1], r[2])

SpecTrail == Init /\ [][NextTrail]_vars

\* One caller recording logins and approvals, and searches during which
\* nothing is written.
Login == CHOOSE params \in Params : params.action = Str("LOGIN")

Searches ==
  { SearchCriteria("", "", "", "", << >>, None, None, ""),
    SearchCriteria(U1, "LOGIN", "", "", << >>, 1, None, ""),
    SearchCriteria("", "", "Invoice", "CONFIDENTIAL", <<"SOX">>, None, 1, "inv") }

NextSearch ==
  \/ search = NoSearch /\ ReadTail(1)
  \/ search = NoSearch /\ \E params \in {Login, Approve}, t \in now..MaxTime : BuildEntry(1, params, t)
  \/ search = NoSearch /\ Create(1)
  \/ search = NoSearch /\ Return(1)
  \/ vres = NoResult /\ \E searchParams \in Searches, limit \in 1..2, skip \in 0..1 :
                          searchCount(searchParams, limit, skip)
  \/ searchFind

SpecSearch == Init /\ [][NextSearch]_vars

\* One caller recording logins, and searches without criteria that start
\* between two calls and whose two reads a call may separate.
NextSearchRace ==
  \/ ReadTail(1)
  \/ \E t \in now..MaxTime : BuildEntry(1, Login, t)
  \/ Create(1)
  \/ Return(1)
  \/ vres = NoResult /\ pc[1] = "idle" /\ \E limit \in 1..2, skip \in 0..1 :
       searchCount(SearchCriteria("", "", "", "", << >>, None, None, ""), limit, skip)
  \/ searchFind

SpecSearchRace == Init /\ [][NextSearchRace]_vars

\* One caller recording refused approvals and denied accesses, and reports
\* between its steps.
ReportedParams ==
  { [Approve EXCEPT !.success = Bool("false"), !.errorMessage = Str("denied")],
    [Login EXCEPT !.action = Str("ACCESS_DENIED"), !.sensitivity = Str("RESTRICTED")] }

NextReport ==
  \/ ReadTail(1)
  \/ \E params \in ReportedParams, t \in now..MaxTime : BuildEntry(1, params, t)
  \/ Create(1)
  \/ Return(1)
  \/ vres = NoResult /\ \E startDate, endDate \in 0..MaxTime, standards \in {<< >>, <<"SOX">>} :
                          generateComplianceReport(startDate, endDate, standards)

SpecReport == Init /\ [][NextReport]_vars

\* One caller recording logins, writes behind the service, and every read
\* operation between the steps of the caller.
NextReadOnly ==
  \/ tamper = NoTamper /\ createAuditEntry(1) /\ (pc'[1] = "built" => built'[1].action = Str("LOGIN"))
  \/ pc[1] = "idle" /\ Tamper
  \/ vres = NoResult /\ search = NoSearch /\
       \/ verifyChainIntegrity
       \/ generateComplianceReport(0, MaxTime, << >>)
       \/ getUserAuditTrail(U1, None, None, 2)
       \/ getResourceAuditTrail("Session", "s1")
       \/ searchCount(SearchCriteria("", "", "", "", << >>, None, None, ""), 2, 0)
  \/ searchFind

SpecReadOnly == Init /\ [][NextReadOnly]_vars

\* A ledger written by one caller and verified, then, no call being in
\* progress, one write behind the service to a field outside the hash, then
\* verification again.
NextUnbound ==
  \/ tamper = NoTamper /\ createAuditEntry(1)
  \/ vres.op = "verifyChainIntegrity" /\ pc[1] = "idle" /\ TamperUnbound
  \/ vres = NoResult /\ verifyChainIntegrity

SpecUnbound == Init /\ [][NextUnbound]_vars

\* A ledger written by one caller, verification of the whole ledger, and
\* after a valid result verification over a range, either bound given or
\* not.
RangeBounds == {None} \cup 0..MaxTime

NextRanges ==
  \/ createAuditEntry(1)
  \/ vres = NoResult /\ verifyChainIntegrityBetween(None, None)
  \/ /\ vres.op = "verifyChainIntegrity" /\ vres.startDate = None /\ vres.endDate = None /\ vres.valid
     /\ \E startDate, endDate \in RangeBounds :
          (startDate # None \/ endDate # None) /\ verifyChainIntegrityBetween(startDate, endDate)

SpecRanges == Init /\ [][NextRanges]_vars

\* =============================================================== claims
Verified == vres.op = "verifyChainIntegrity"
HasError(id, kind) == \E k \in 1..Len(vres.errors) : vres.errors[k] = [entryId |-> id, error |-> kind]
EntryOf(es, id) == CHOOSE e \in Range(es) : e.id = id

\* C1 (chain linkage): the stored entries, in some order of ascending
\* timestamp, start at the genesis sentinel and each carry the hash of the
\* entry before as previousHash.
Linked(sorted) ==
  \A i \in 1..Len(sorted) : sorted[i].previousHash = IF i = 1 THEN GENESIS ELSE sorted[i - 1].hash

ChainLinkage == \E sorted \in Sorted(entries, None, None) : Linked(sorted)

\* C2 (no fork): no two stored entries have the same previousHash.
NoFork ==
  \A i, j \in 1..Len(entries) : i # j => entries[i].previousHash # entries[j].previousHash

\* C3 (content binding round trip): the hash recomputed from the stored
\* fields of every entry the service stored is the stored hash, and a
\* verification of the ledger reports no hash mismatch.
ContentBindingRoundTrip ==
  /\ \A i \in 1..Len(entries) : RecomputedHash(entries[i]) = entries[i].hash
  /\ Verified => \A k \in 1..Len(vres.errors) : vres.errors[k].error # HashMismatch

\* C4 (hash sensitivity): after the stored value of one field that the
\* hash binds was changed, verification reports a hash mismatch for that
\* entry.
HashSensitivity ==
  (tamper.field \in BoundFields /\ Verified) => HasError(tamper.id, HashMismatch)

\* C5 (immutability of operations): every update or delete operation on a
\* stored entry ends with an error.
ImmutabilityOfOperations == storeResult.op # "none" => storeResult.outcome = "error"

\* C6 (append-only ledger): every step keeps every stored entry, with every
\* field unchanged.
AppendOnly ==
  [][\A i \in 1..Len(entries) : \E j \in 1..Len(entries') : entries'[j] = entries[i]]_vars

\* C7 (hash uniqueness): the hashes of the stored entries are pairwise
\* distinct, and a create whose hash is already stored throws the duplicate
\* key error and leaves the ledger as it was.
HashesDistinct == \A i, j \in 1..Len(entries) : i # j => entries[i].hash # entries[j].hash

HashUniqueness ==
  /\ []HashesDistinct
  /\ [][\A p \in Procs :
          (pc[p] = "built" /\ pc'[p] # "built" /\ built[p].hash \in Hashes(entries))
          => (entries' = entries /\ result'.status = "thrown" /\ result'.error = "DuplicateKeyError")]_vars

DuplicateRejected ==
  /\ result.status = "thrown" /\ result.error = "DuplicateKeyError"
  /\ Len(entries) >= 2

\* C8 (corrupted previousHash), as amended: on a valid ledger in which one
\* entry's previousHash was changed, verification reports a hash mismatch
\* for that entry, then, unless that entry is the earliest, a broken chain
\* for the same entry, and nothing else.
IsEarliest(es, id) == \A e \in Range(es) : e.timestamp >= EntryOf(es, id).timestamp
IsLatest(es, id) == \A e \in Range(es) : e.timestamp <= EntryOf(es, id).timestamp

PreviousHashCorrupted ==
  tamper.field = "previousHash" /\ ValidLedger(tamper.before) /\ Verified

Successor(es, id) ==
  CHOOSE e \in Range(es) :
    /\ e.timestamp > EntryOf(es, id).timestamp
    /\ \A f \in Range(es) : f.timestamp > EntryOf(es, id).timestamp => f.timestamp >= e.timestamp

HashCorrupted == tamper.field = "hash" /\ ValidLedger(tamper.before) /\ Verified

HashCorruptionFindings ==
  HashCorrupted =>
    vres.errors = <<[entryId |-> tamper.id, error |-> HashMismatch]>>
                  \o (IF IsLatest(entries, tamper.id) THEN << >>
                      ELSE <<[entryId |-> Successor(entries, tamper.id).id, error |-> ChainBroken]>>)

HashCorruptedInChain == HashCorrupted /\ ~IsLatest(entries, tamper.id)

\* C9 as stated: exactly one error, the hash mismatch for that entry.
HashCorruptionOnlyHashMismatch ==
  HashCorrupted => vres.errors = <<[entryId |-> tamper.id, error |-> HashMismatch]>>

\* C10 (end-to-end scenario): on the ledger of a LOGIN and then an APPROVE
\* call that both returned, E1 starts at the genesis sentinel, E2 follows E1, and verification
\* returns valid, two entries and no error; once E1's details were changed
\* in the store it returns invalid with the hash mismatch for E1 alone.
Scenario(es) == Len(es) = 2 /\ es[1].action = Str("LOGIN") /\ es[2].action = Str("APPROVE")

EndToEndScenario ==
  /\ (tamper = NoTamper /\ Scenario(entries) /\ pc[1] = "idle") =>
       /\ entries[1].previousHash = GENESIS
       /\ entries[2].previousHash = entries[1].hash
       /\ Verified => (vres.valid /\ vres.totalEntries = 2 /\ vres.errors = << >>)
  /\ (tamper.field = "details" /\ tamper.id = 1 /\ Scenario(tamper.before) /\ Verified) =>
       (~vres.valid /\ vres.errors = <<[entryId |-> 1, error |-> HashMismatch]>>)

\* C11 (complete findings): a verification over a range returns the number
\* of entries in the range, valid exactly when errors is empty, and, for
\* the ascending sequence it read, one hash mismatch for each entry whose
\* recomputed hash is not its stored hash and one broken chain for each
\* position after the first whose previousHash is not the hash of the
\* entry before, and no other error.
Findings(sorted) ==
  {[entryId |-> sorted[i].id, error |-> HashMismatch] :
     i \in {j \in 1..Len(sorted) : RecomputedHash(sorted[j]) # sorted[j].hash}}
  \cup {[entryId |-> sorted[i].id, error |-> ChainBroken] :
          i \in {j \in 2..Len(sorted) : sorted[j].previousHash # sorted[j - 1].hash}}

CompleteFindings ==
  Verified =>
    /\ vres.totalEntries = Cardinality(Indices(entries, vres.startDate, vres.endDate))
    /\ vres.valid <=> (vres.errors = << >>)
    /\ \E sorted \in Sorted(entries, vres.startDate, vres.endDate) :
         /\ Range(vres.errors) = Findings(sorted)
         /\ Len(vres.errors) = Cardinality(Findings(sorted))

SeveralFindingsInRange ==
  /\ Verified
  /\ vres.startDate # None
  /\ vres.totalEntries < Len(entries)
  /\ \E k, l \in 1..Len(vres.errors) : vres.errors[k].entryId # vres.errors[l].entryId

\* C12 (deletion is detected): after one entry was removed from a valid
\* ledger of two or more entries, verification of the whole ledger returns
\* invalid with a broken chain reported.
Removed == tamper.field = "removed" /\ Len(tamper.before) >= 2 /\ ValidLedger(tamper.before) /\ Verified

DeletionDetected ==
  Removed => (~vres.valid /\ \E k \in 1..Len(vres.errors) : vres.errors[k].error = ChainBroken)

\* C13 (forgery without the secret is detected): after a document signed
\* with another secret than the service's was inserted behind the service
\* into a valid ledger, verification returns invalid.
Forged == tamper.field = "forged" /\ ValidLedger(tamper.before) /\ Verified

ForgeryDetected == Forged => ~vres.valid

\* C14 (the signature covers the hash): the text under the signature of
\* every stored entry has the member hash, holding the entry's hash.
SignedMember(signature, key, h) ==
  \E a \in 1..Len(signature) :
    /\ a + Len(h) + 1 <= Len(signature)
    /\ SubSeq(signature, a, a + Len(h) + 1) = DigestMember(key, h)

SignatureCoversHash ==
  \A i \in 1..Len(entries) : SignedMember(entries[i].signature, "hash", entries[i].hash)

\* C15 (signature binding): verifySignature returns true for an entry and
\* its signature under the same secret, false for every other signature,
\* and false for the signature of an entry that differs from the one
\* verified.
SignatureBinding ==
  vres.op = "verifySignature" =>
    /\ (vres.signature = signData(vres.checked, vres.secret)) => vres.outcome = "true"
    /\ (vres.signature # signData(vres.checked, vres.secret)) => vres.outcome = "false"
    /\ (vres.signed # vres.checked /\ vres.signature = signData(vres.signed, vres.secret))
         => vres.outcome = "false"

\* C16 (genesis on an empty ledger): the previousHash of the entry a call
\* builds is the hash the tail read of that call found, and the genesis
\* sentinel when it found nothing.
GenesisOnEmptyLedger ==
  [][\A p \in Procs :
       (pc[p] = "read" /\ pc'[p] = "built") =>
         built'[p].previousHash = IF lastEntry[p].found THEN lastEntry[p].hash ELSE GENESIS]_vars

\* C17 (bounded retry on duplicate hash): a call whose append is rejected
\* because the hash is already stored does not end with that rejection; it
\* goes on to build the entry again.
RetryOnDuplicateHash ==
  [][\A p \in Procs :
       (pc[p] = "built" /\ pc'[p] # "built" /\ Validates(built[p]) /\ built[p].hash \in Hashes(entries))
         => (pc'[p] # "idle" /\ result'.status # "thrown")]_vars

\* C18 (append failures are not swallowed): a call whose append fails ends
\* with the error thrown and the ledger as it was, a document that does not
\* validate or whose hash is stored is never appended, and every append
\* that succeeds links to the hash of a stored tail, or to the genesis
\* sentinel on an empty ledger.
LinksToTail(d, es) ==
  IF es = << >> THEN d.previousHash = GENESIS
  ELSE \E i \in Tails(es) : d.previousHash = es[i].hash

FailClosed ==
  (env.NODE_ENV = Str("production") /\ env.AUDIT_SECRET = Undef) => entries = << >>

\* C20 (canonical encoding ignores map key order): two entries built with
\* every field equal and the same key/value pairs in details, in whatever
\* order, have the same hash and the same signature.
SameButKeyOrder(a, b) ==
  /\ a.timestamp = b.timestamp /\ a.action = b.action /\ a.userId = b.userId
  /\ a.username = b.username /\ a.resourceType = b.resourceType /\ a.resourceId = b.resourceId
  /\ a.ipAddress = b.ipAddress /\ a.userAgent = b.userAgent /\ a.sensitivity = b.sensitivity
  /\ a.complianceTags = b.complianceTags /\ a.previousHash = b.previousHash
  /\ a.success = b.success /\ a.errorMessage = b.errorMessage
  /\ Len(a.details) = Len(b.details) /\ Range(a.details) = Range(b.details)

KeyOrderIgnored ==
  \A p, q \in Procs :
    (pc[p] = "built" /\ pc[q] = "built" /\ SameButKeyOrder(built[p], built[q]))
      => (built[p].hash = built[q].hash /\ built[p].signature = built[q].signature)

\* C21 (idempotent read): a call of getResourceAuditTrail that follows a
\* call with the same arguments, no write between the two, returns the same
\* entries in the same order.
IdempotentRead ==
  [][(/\ vres.op = "getResourceAuditTrail" /\ vres'.op = "getResourceAuditTrail"
      /\ vres'.resourceType = vres.resourceType /\ vres'.resourceId = vres.resourceId
      /\ entries' = entries)
     => vres'.ids = vres.ids]_vars

\* C22 (search pagination): a search during which nothing was written
\* returns as total the number of stored entries that match, as entries
\* the slice [skip, skip + limit) of the matching entries in an order of
\* descending timestamp, page = floor(skip / limit) + 1 and
\* pages = ceil(total / limit).
Searched == vres.op = "searchAuditLogs"

SearchPagination ==
  (Searched /\ vres.inserted = 0) =>
    LET m == Matching(entries, vres.searchParams) IN
      /\ vres.total = Cardinality(m)
      /\ \E sorted \in Descending(entries, m) :
           /\ Len(vres.ids) = (IF Len(sorted) - vres.skip > vres.limit THEN vres.limit
                               ELSE IF Len(sorted) > vres.skip THEN Len(sorted) - vres.skip ELSE 0)
           /\ \A k \in 1..Len(vres.ids) : vres.ids[k] = sorted[vres.skip + k].id
      /\ vres.page * vres.limit > vres.skip /\ (vres.page - 1) * vres.limit <= vres.skip
      /\ vres.pages * vres.limit >= vres.total /\ (vres.pages - 1) * vres.limit < vres.total + (IF vres.total = 0 THEN 1 ELSE 0)

SecondPage ==
  /\ Searched /\ vres.inserted = 0
  /\ vres.skip = 1 /\ vres.limit = 1 /\ vres.total >= 2 /\ vres.total < Len(entries)
  /\ Len(vres.ids) = 1

\* C30 (search result under concurrent writes), as amended: a search
\* returns at most limit entries, and at most total plus the number of
\* entries inserted between its count and its find.
SearchResultSize ==
  Searched => (Len(vres.ids) <= vres.limit /\ Len(vres.ids) <= vres.total + vres.inserted)

MoreThanTotal == Searched /\ vres.inserted > 0 /\ Len(vres.ids) > vres.total

\* C30 as stated: at most total and at most limit entries.
SearchResultWithinTotal ==
  Searched => (Len(vres.ids) <= vres.total /\ Len(vres.ids) <= vres.limit)

\* C23 (compliance report aggregates): with E the stored entries of the
\* period that match the standards, the report has totalEntries = |E|,
\* the counts by action and the counts by sensitivity each summing to |E|,
\* failureCount the number of entries of E with success false, and as
\* violations one summary for each entry of E with success false or action
\* ACCESS_DENIED, and no other.
RECURSIVE SumOfCounts(_)
SumOfCounts(counts) ==
  IF counts = {} THEN 0
  ELSE LET c == CHOOSE x \in counts : TRUE IN c.count + SumOfCounts(counts \ {c})

Reported == vres.op = "generateComplianceReport"

InPeriod(e) ==
  /\ vres.startDate <= e.timestamp /\ e.timestamp <= vres.endDate
  /\ vres.standards # << >> => Range(e.complianceTags) \cap Range(vres.standards) # {}

Reportable(e) == InPeriod(e) /\ (e.success = Bool("false") \/ e.action = Str("ACCESS_DENIED"))

ReportAggregates ==
  Reported =>
    LET E == {i \in 1..Len(entries) : InPeriod(entries[i])} IN
      /\ vres.totalEntries = Cardinality(E)
      /\ SumOfCounts(vres.actionBreakdown) = Cardinality(E)
      /\ SumOfCounts(vres.sensitivityBreakdown) = Cardinality(E)
      /\ vres.failureCount = Cardinality({i \in E : entries[i].success = Bool("false")})
      /\ vres.violations = Summaries(SelectSeq(entries, Reportable))

ReportWithViolations ==
  /\ Reported
  /\ vres.totalEntries >= 2 /\ vres.totalEntries < Len(entries)
  /\ vres.failureCount >= 1 /\ Len(vres.violations) > vres.failureCount

\* C24 (read operations are read-only): a step of verifyChainIntegrity,
\* generateComplianceReport, getUserAuditTrail, getResourceAuditTrail or
\* searchAuditLogs leaves the stored entries, with every field of each, and
\* the tail the service remembers as they were, whether the ledger is
\* reported valid or not.
ReadStep == (vres' # vres /\ vres'.op # "none") \/ search' # search

ReadsWriteNothing == [][ReadStep => entries' = entries /\ previousHash' = previousHash]_vars

TamperedLedgerRead ==
  /\ Verified /\ ~vres.valid
  /\ tamper # NoTamper
  /\ previousHash # GENESIS

\* C25 (the tail read returns the most recently appended entry): when the
\* calls of createAuditEntry do not overlap, each entry stored after the
\* first has for previousHash the hash of the entry stored by the call
\* before it, also when the two calls got the same timestamp.
TailReadIsLatest ==
  \A i \in 2..Len(entries) : entries[i].previousHash = entries[i - 1].hash

\* C26 (signature verification is total): verifySignature returns a
\* boolean for every signature it is given; for a signature whose length is
\* not the length of the expected one it returns false, and it raises
\* nothing.
VerifyTotal ==
  vres.op = "verifySignature" =>
    /\ vres.outcome \in {"true", "false"}
    /\ vres.signature.length # DigestLength => vres.outcome = "false"

\* C27 (fields outside the hash input are invisible to verification): after
\* a change of only the stored ipAddress, userAgent, sensitivity,
\* complianceTags, errorMessage or signature of an entry, verification
\* returns valid, totalEntries and errors exactly as it returned them before
\* the change.
UnboundFieldsInvisible ==
  (tamper.field \in UnboundFields /\ Verified) => vres = tamper.result

\* C28 (range restriction keeps validity): when verification of the whole
\* ledger returned valid, verification over a range, with either bound or
\* both, returns valid too, and as totalEntries the number of entries whose
\* timestamp lies in the range.
RangeKeepsValidity ==
  [][(Verified /\ vres.valid /\ vres.startDate = None /\ vres.endDate = None /\ vres' # vres /\ vres'.op = "verifyChainIntegrity")
       => /\ vres'.valid
          /\ vres'.totalEntries = Cardinality(Indices(entries, vres'.startDate, vres'.endDate))]_vars

\* C29 (referential invariant of previousHash): in every state reached
\* through createAuditEntry calls alone, interleaved in any way and ending
\* either way, the previousHash of each stored entry is the genesis hash or
\* the hash of another stored entry whose timestamp is not later than its
\* own.
PreviousHashRefers ==
  \A i \in 1..Len(entries) :
    \/ entries[i].previousHash = GENESIS
    \/ \E j \in 1..Len(entries) :
         /\ j # i
         /\ entries[j].hash = entries[i].previousHash
         /\ entries[j].timestamp <= entries[i].timestamp

ForkStored ==
  /\ Len(entries) = MaxEntries
  /\ \E i, j \in 1..Len(entries) :
       i # j /\ entries[i].previousHash = entries[j].previousHash /\ entries[i].previousHash # GENESIS

====
